---------------------------- MODULE Spec2Model ----------------------------
(***************************************************************************)
(* A model of rust-json-formatter: the lexer (src/src/lexer.rs), the       *)
(* recursive-descent parser (src/src/parser.rs) and the printer            *)
(* (src/src/json.rs).                                                      *)
(*                                                                         *)
(* A character is a string: the printable ASCII characters stand for       *)
(* themselves, the others are named ("<LF>", "<e-acute>", ...).  A text is *)
(* the sequence of the bytes of its UTF-8 encoding: the first byte of a    *)
(* character stands for the character, the others are continuation bytes.  *)
(* Cursor positions are byte offsets into the text, as in the source.      *)
(***************************************************************************)
EXTENDS Integers, Sequences, FiniteSets, TLC

VARIABLES
    input,          \* Lexer.input: the text being analysed
    position,       \* Lexer.position
    read_position,  \* Lexer.read_position
    ch,             \* Lexer.ch (EOF models None)
    token,          \* the value returned by the last Lexer::next_token call
    prev,           \* the lexer cursor when the last call began (history)
    current_token,  \* Parser.current_token
    value,          \* the JsonValue handed to JsonValue::format
    indent,         \* the indent handed to JsonValue::format
    result,         \* the value returned by Parser::parse
    output,         \* the text returned by JsonValue::format
    dropped,        \* the `dropped` report of the last Parser::parse (history)
    stack,          \* the parse_object and parse_array calls in progress
    consumed,       \* the tokens Parser::parse has passed over (history)
    pc              \* which call of the run comes next

vars == <<input, position, read_position, ch, token, prev, current_token,
          value, indent, result, output, dropped, stack, consumed, pc>>

---------------------------------------------------------------------------
(* Characters *)

EOF == "<EOF>"
Quote == "\""
Backslash == "\\"
Space == " "
LF == "<LF>"
CR == "<CR>"
TAB == "<TAB>"
BS == "<BS>"
FF == "<FF>"
EAcute == "<e-acute>"
IdeoSpace == "<U+3000>"
Euro == "<euro>"
Panic == "<panic>"

Digits == {"0", "1", "2", "3", "4", "5", "6", "7", "8", "9"}

Letters ==
    {"a", "b", "c", "d", "e", "f", "g", "h", "i", "j", "k", "l", "m", "n",
     "o", "p", "q", "r", "s", "t", "u", "v", "w", "x", "y", "z", "E", EAcute}

\* char::is_whitespace: the Unicode White_Space characters of the alphabet
IsWhitespace(c) == c \in {Space, LF, CR, TAB, FF, IdeoSpace}

\* char::is_digit(10)
IsDigit(c) == c \in Digits

\* char::is_alphabetic
IsAlphabetic(c) == c \in Letters

\* char::len_utf8
Utf8Len(c) ==
    IF c = EAcute THEN 2
    ELSE IF c \in {IdeoSpace, Euro} THEN 3
    ELSE 1

\* a UTF-8 continuation byte
Cont == "<cont>"

\* the UTF-8 encoding of a character: its first byte stands for the
\* character, the bytes after it are continuation bytes
Utf8(c) ==
    IF Utf8Len(c) = 1 THEN <<c>>
    ELSE IF Utf8Len(c) = 2 THEN <<c, Cont>>
    ELSE <<c, Cont, Cont>>

RECURSIVE Encode(_)
\* the text (a sequence of bytes) of a sequence of characters
Encode(chars) ==
    IF chars = <<>> THEN <<>> ELSE Utf8(Head(chars)) \o Encode(Tail(chars))

\* the characters of a text
Chars(text) == SelectSeq(text, LAMBDA b : b # Cont)

\* str::len: the length of the text in bytes
ByteLen(text) == Len(text)

\* input[b..].chars().next(): the character that starts at byte offset b
\* (slicing inside a character panics)
CharAtByte(text, b) == IF text[b + 1] = Cont THEN Panic ELSE text[b + 1]

---------------------------------------------------------------------------
(* Tokens and numbers *)

NoToken == [type |-> "None"]
StructuralToken(t) == [type |-> t]
StringToken(s) == [type |-> "String", str |-> s]
NumberToken(n) == [type |-> "Number", num |-> n]

\* An f64 that a decimal lexeme denotes: (-1)^neg * mant * 10^exp with mant
\* not divisible by 10 (mant = 0 has exp = 0); and the infinities.
Finite(neg, mant, exp) == [kind |-> "finite", neg |-> neg, mant |-> mant, exp |-> exp]
Infinity(neg) == [kind |-> "inf", neg |-> neg]
ParseError == [kind |-> "error"]

DigitValue(c) ==
    CASE c = "0" -> 0 [] c = "1" -> 1 [] c = "2" -> 2 [] c = "3" -> 3
      [] c = "4" -> 4 [] c = "5" -> 5 [] c = "6" -> 6 [] c = "7" -> 7
      [] c = "8" -> 8 [] c = "9" -> 9

DigitChar(d) ==
    CASE d = 0 -> "0" [] d = 1 -> "1" [] d = 2 -> "2" [] d = 3 -> "3"
      [] d = 4 -> "4" [] d = 5 -> "5" [] d = 6 -> "6" [] d = 7 -> "7"
      [] d = 8 -> "8" [] d = 9 -> "9"

RECURSIVE DigitsValue(_, _)
DigitsValue(ds, acc) ==
    IF ds = <<>> THEN acc ELSE DigitsValue(Tail(ds), 10 * acc + DigitValue(Head(ds)))

RECURSIVE DigitRun(_)
\* the longest prefix of s made of digits
DigitRun(s) ==
    IF s # <<>> /\ IsDigit(Head(s)) THEN <<Head(s)>> \o DigitRun(Tail(s)) ELSE <<>>

RECURSIVE Normalize(_, _, _)
Normalize(neg, mant, exp) ==
    IF mant = 0 THEN Finite(neg, 0, 0)
    ELSE IF mant % 10 = 0 THEN Normalize(neg, mant \div 10, exp + 1)
    ELSE Finite(neg, mant, exp)

\* the largest decimal exponent of a finite f64 (f64::MAX is about 1.8e308)
MaxDecimalExp == 308

\* a decimal beyond the range of f64 parses to an infinity
Rounded(n) ==
    IF n.mant # 0 /\ n.exp > MaxDecimalExp THEN Infinity(n.neg) ELSE n

IsSign(s) == s # <<>> /\ Head(s) \in {"-", "+"}
IsMinus(s) == s # <<>> /\ Head(s) = "-"
StripSign(s) == IF IsSign(s) THEN Tail(s) ELSE s
Drop(s, n) == SubSeq(s, n + 1, Len(s))

\* the digits of the exponent: Digit+ and nothing after them
ParseExpDigits(neg, ip, fp, expNeg, s) ==
    IF s = <<>> \/ DigitRun(s) # s THEN ParseError
    ELSE Rounded(Normalize(neg, DigitsValue(ip \o fp, 0),
                           (IF expNeg THEN 0 - DigitsValue(s, 0) ELSE DigitsValue(s, 0))
                               - Len(fp)))

\* what follows the mantissa: nothing, or [eE] Sign? Digit+
ParseExpPart(neg, ip, fp, s) ==
    IF ip = <<>> /\ fp = <<>> THEN ParseError
    ELSE IF s = <<>> THEN Normalize(neg, DigitsValue(ip \o fp, 0), 0 - Len(fp))
    ELSE IF Head(s) \notin {"e", "E"} THEN ParseError
    ELSE ParseExpDigits(neg, ip, fp, IsMinus(Tail(s)), StripSign(Tail(s)))

\* what follows the integer digits ip: an optional '.' Digit*
ParseFraction(neg, ip, s) ==
    IF s # <<>> /\ Head(s) = "."
    THEN ParseExpPart(neg, ip, DigitRun(Tail(s)), Drop(Tail(s), Len(DigitRun(Tail(s)))))
    ELSE ParseExpPart(neg, ip, <<>>, s)

ParseMantissa(neg, s) == ParseFraction(neg, DigitRun(s), Drop(s, Len(DigitRun(s))))

\* str::parse::<f64> on a lexeme of read_number:
\*   Sign? ( Digit+ | Digit+ '.' Digit* | Digit* '.' Digit+ ) ( [eE] Sign? Digit+ )?
ParseF64(lexeme) == ParseMantissa(IsMinus(lexeme), StripSign(lexeme))

---------------------------------------------------------------------------
(* Lexer: src/src/lexer.rs.  A lexer is [position, read_position, ch] over *)
(* a text.                                                                 *)

\* the struct literal of Lexer::new, before the priming read_char
LexerFields == [position |-> 0, read_position |-> 0, ch |-> EOF]

\* the cursor moves on by one byte whatever the character
MoveToByte(L, c) ==
    [position |-> L.read_position,
     read_position |-> L.read_position + (IF c = EOF THEN 0 ELSE 1),
     ch |-> c]

\* read_char: the cursor moves on to the character c that was read
MoveTo(L, c) ==
    [position |-> L.read_position,
     read_position |-> L.read_position + (IF c = EOF THEN 0 ELSE Utf8Len(c)),
     ch |-> c]

\* Lexer::read_char
ReadChar(text, L) ==
    MoveTo(L, IF L.read_position >= ByteLen(text) THEN EOF
              ELSE CharAtByte(text, L.read_position))

\* Lexer::new
LexerNew(text) == ReadChar(text, LexerFields)

RECURSIVE SkipWhitespace(_, _)
\* Lexer::skip_whitespace
SkipWhitespace(text, L) ==
    IF L.ch # EOF /\ IsWhitespace(L.ch)
    THEN SkipWhitespace(text, ReadChar(text, L))
    ELSE L

\* the match of read_string: what an escape character appends to the result
EscapeDecoded(esc) ==
    CASE esc = Quote -> <<Quote>>
      [] esc = Backslash -> <<Backslash>>
      [] esc = "/" -> <<"/">>
      [] esc = "b" -> <<BS>>
      [] esc = "f" -> <<FF>>
      [] esc = "n" -> <<LF>>
      [] esc = "r" -> <<CR>>
      [] esc = "t" -> <<TAB>>
      [] OTHER -> <<>>

\* the number of characters the `u` arm of read_string reads past
UnicodeEscapeSkip == 4

RECURSIVE ReadChars(_, _, _)
\* for _ in 0..n { self.read_char(); }
ReadChars(text, L, n) ==
    IF n = 0 THEN L ELSE ReadChars(text, ReadChar(text, L), n - 1)

\* a lexeme read: the lexer after it and the characters collected
Lexeme(L, acc) == [lexer |-> L, string |-> acc]

RECURSIVE ReadStringLoop(_, _, _)

\* the escape arm without the `u` arm
ReadEscapeNoSkip(text, L, acc) ==
    ReadStringLoop(text, ReadChar(text, L),
                   IF L.ch = EOF THEN acc ELSE acc \o EscapeDecoded(L.ch))

\* the escape arm of read_string; L is the lexer on the character after `\`
ReadEscape(text, L, acc) ==
    ReadStringLoop(text,
                   ReadChar(text, IF L.ch = "u" THEN ReadChars(text, L, UnicodeEscapeSkip)
                                  ELSE L),
                   IF L.ch = EOF THEN acc ELSE acc \o EscapeDecoded(L.ch))

\* the while loop of Lexer::read_string
ReadStringLoop(text, L, acc) ==
    IF L.ch = EOF THEN Lexeme(L, acc)
    ELSE IF L.ch = Quote THEN Lexeme(ReadChar(text, L), acc)
    ELSE IF L.ch = Backslash THEN ReadEscape(text, ReadChar(text, L), acc)
    ELSE ReadStringLoop(text, ReadChar(text, L), Append(acc, L.ch))

\* Lexer::read_string
ReadString(text, L) == ReadStringLoop(text, ReadChar(text, L), <<>>)

IsNumberChar(c) == IsDigit(c) \/ c \in {".", "-", "+", "e", "E"}

RECURSIVE ReadNumberLoop(_, _, _)
ReadNumberLoop(text, L, acc) ==
    IF L.ch # EOF /\ IsNumberChar(L.ch)
    THEN ReadNumberLoop(text, ReadChar(text, L), Append(acc, L.ch))
    ELSE Lexeme(L, acc)

\* Lexer::read_number
ReadNumber(text, L) == ReadNumberLoop(text, L, <<>>)

RECURSIVE ReadLiteralLoop(_, _, _)
ReadLiteralLoop(text, L, acc) ==
    IF L.ch # EOF /\ IsAlphabetic(L.ch)
    THEN ReadLiteralLoop(text, ReadChar(text, L), Append(acc, L.ch))
    ELSE Lexeme(L, acc)

\* the match of read_literal
LiteralToken(s) ==
    CASE s = <<"t", "r", "u", "e">> -> StructuralToken("True")
      [] s = <<"f", "a", "l", "s", "e">> -> StructuralToken("False")
      [] s = <<"n", "u", "l", "l">> -> StructuralToken("Null")
      [] OTHER -> NoToken

\* what next_token returns: the lexer after the call and the token
Lexed(L, t) == [lexer |-> L, token |-> t]

LiteralLexed(r) == Lexed(r.lexer, LiteralToken(r.string))

\* Lexer::read_literal
ReadLiteral(text, L) == LiteralLexed(ReadLiteralLoop(text, L, <<>>))

\* the single-character tokens of next_token
StructuralOf(c) ==
    CASE c = "{" -> "LeftBrace"
      [] c = "}" -> "RightBrace"
      [] c = "[" -> "LeftBracket"
      [] c = "]" -> "RightBracket"
      [] c = ":" -> "Colon"
      [] c = "," -> "Comma"

StringLexed(r) == Lexed(r.lexer, StringToken(r.string))

NumberOrNone(n) == IF n = ParseError THEN NoToken ELSE NumberToken(n)

\* the number arm of next_token
NumberLexed(r) == Lexed(r.lexer, NumberOrNone(ParseF64(r.string)))

\* the match of next_token with an unknown character left where it is
DispatchNoSkip(text, L) ==
    IF L.ch = EOF THEN Lexed(L, NoToken)
    ELSE IF L.ch \in {"{", "}", "[", "]", ":", ","}
    THEN Lexed(ReadChar(text, L), StructuralToken(StructuralOf(L.ch)))
    ELSE IF L.ch = Quote THEN StringLexed(ReadString(text, L))
    ELSE IF IsDigit(L.ch) \/ L.ch = "-" \/ L.ch = "+" THEN NumberLexed(ReadNumber(text, L))
    ELSE IF IsAlphabetic(L.ch) THEN ReadLiteral(text, L)
    ELSE Lexed(L, NoToken)

\* the match of next_token, on the lexer after skip_whitespace
Dispatch(text, L) ==
    IF L.ch = EOF THEN Lexed(L, NoToken)
    ELSE IF L.ch \in {"{", "}", "[", "]", ":", ","}
    THEN Lexed(ReadChar(text, L), StructuralToken(StructuralOf(L.ch)))
    ELSE IF L.ch = Quote THEN StringLexed(ReadString(text, L))
    ELSE IF IsDigit(L.ch) \/ L.ch = "-" \/ L.ch = "+" THEN NumberLexed(ReadNumber(text, L))
    ELSE IF IsAlphabetic(L.ch) THEN ReadLiteral(text, L)
    ELSE Lexed(ReadChar(text, L), NoToken)

\* Lexer::next_token: the lexer after the call and the value returned
NextToken(text, L) == Dispatch(text, SkipWhitespace(text, L))

---------------------------------------------------------------------------
(* JSON values: src/src/json.rs.  An object is the sequence of its entries *)
(* in insertion order (JsonObject is an IndexMap).                         *)

NoValue == [type |-> "None"]
NullValue == [type |-> "Null"]
TrueValue == [type |-> "True"]
FalseValue == [type |-> "False"]
NumberValue(n) == [type |-> "Number", num |-> n]
StringValue(s) == [type |-> "String", str |-> s]
ArrayValue(items) == [type |-> "Array", items |-> items]
ObjectValue(entries) == [type |-> "Object", entries |-> entries]

\* an insert that puts a new key first
MapInsertFront(entries, key, v) ==
    IF \E i \in 1..Len(entries) : entries[i].key = key
    THEN [i \in 1..Len(entries) |->
             IF entries[i].key = key THEN [key |-> key, value |-> v] ELSE entries[i]]
    ELSE <<[key |-> key, value |-> v]>> \o entries

\* IndexMap::insert: a new key is appended, a known key keeps its place and
\* takes the new value
MapInsert(entries, key, v) ==
    IF \E i \in 1..Len(entries) : entries[i].key = key
    THEN [i \in 1..Len(entries) |->
             IF entries[i].key = key THEN [key |-> key, value |-> v] ELSE entries[i]]
    ELSE Append(entries, [key |-> key, value |-> v])

---------------------------------------------------------------------------
(* Parser: src/src/parser.rs.  A parser is [lexer, current_token].  The    *)
(* parse functions return the parser after the call, the value returned    *)
(* (NoValue models None) and `dropped`: whether, during the call, some     *)
(* parse_array or parse_object call returned a container although the      *)
(* parse_value call it made for an element or an entry returned None.      *)

\* a parser
ParserOf(L, t) == [lexer |-> L, current_token |-> t]

ParserLexed(r) == ParserOf(r.lexer, r.token)

\* a next_token that asks the lexer twice and keeps the second answer
ParserNextTokenTwice(text, P) ==
    ParserLexed(NextToken(text, NextToken(text, P.lexer).lexer))

\* Parser::next_token
ParserNextToken(text, P) == ParserLexed(NextToken(text, P.lexer))

\* Parser::new
ParserNew(text, L) == ParserNextToken(text, ParserOf(L, NoToken))

\* Parser::next_token_if_current_is
NextTokenIfCurrentIs(text, P, expected) ==
    IF P.current_token = expected
    THEN [parser |-> ParserNextToken(text, P), ok |-> TRUE]
    ELSE [parser |-> P, ok |-> FALSE]

Returned(P, v) == [parser |-> P, value |-> v, dropped |-> FALSE]

\* what a container call reports, given the call it made for an element
Enclosing(rest, elem) ==
    [rest EXCEPT !.dropped =
        rest.dropped \/ elem.dropped \/ (elem.value = NoValue /\ rest.value # NoValue)]

\* the value of a String, Number, True, False or Null token
ScalarOf(t) ==
    CASE t.type = "String" -> StringValue(t.str)
      [] t.type = "Number" -> NumberValue(t.num)
      [] t.type = "True" -> TrueValue
      [] t.type = "False" -> FalseValue
      [] t.type = "Null" -> NullValue

RECURSIVE ParseValue(_, _), ParseObjectLoop(_, _, _), ParseArrayLoop(_, _, _)

\* the end of an iteration of parse_object: `,` goes on, `}` ends the loop
ParseObjectNext(text, P, object) ==
    IF P.current_token.type = "Comma"
    THEN ParseObjectLoop(text, ParserNextToken(text, P), object)
    ELSE IF P.current_token.type = "RightBrace"
    THEN Returned(ParserNextToken(text, P), ObjectValue(object))
    ELSE Returned(P, NoValue)

\* parse_object with the value v of an entry parsed: insert it, if there is one
ParseObjectEntry(text, v, key, object) ==
    Enclosing(ParseObjectNext(text, v.parser,
                              IF v.value # NoValue THEN MapInsert(object, key, v.value)
                              ELSE object),
              v)

\* parse_object after the key: c is what next_token_if_current_is(Colon) gave
ParseObjectColon(text, c, key, object) ==
    IF ~c.ok THEN Returned(c.parser, NoValue)
    ELSE ParseObjectEntry(text, ParseValue(text, c.parser), key, object)

\* the loop of Parser::parse_object
ParseObjectLoop(text, P, object) ==
    IF P.current_token.type # "String" THEN Returned(P, NoValue)
    ELSE ParseObjectColon(text,
                          NextTokenIfCurrentIs(text, ParserNextToken(text, P),
                                               StructuralToken("Colon")),
                          P.current_token.str, object)

\* parse_object after next_token_if_current_is(LeftBrace)
ParseObjectOpened(text, open) ==
    IF ~open.ok THEN Returned(open.parser, NoValue)
    ELSE IF open.parser.current_token.type = "RightBrace"
    THEN Returned(ParserNextToken(text, open.parser), ObjectValue(<<>>))
    ELSE ParseObjectLoop(text, open.parser, <<>>)

\* Parser::parse_object
ParseObject(text, P) ==
    ParseObjectOpened(text, NextTokenIfCurrentIs(text, P, StructuralToken("LeftBrace")))

\* the end of an iteration of parse_array: `,` goes on, `]` ends the loop
ParseArrayNext(text, P, array) ==
    IF P.current_token.type = "Comma"
    THEN ParseArrayLoop(text, ParserNextToken(text, P), array)
    ELSE IF P.current_token.type = "RightBracket"
    THEN Returned(ParserNextToken(text, P), ArrayValue(array))
    ELSE Returned(P, NoValue)

\* parse_array with the value v of an element parsed: push it, if there is one
ParseArrayElement(text, v, array) ==
    Enclosing(ParseArrayNext(text, v.parser,
                             IF v.value # NoValue THEN Append(array, v.value) ELSE array),
              v)

\* the loop of Parser::parse_array
ParseArrayLoop(text, P, array) == ParseArrayElement(text, ParseValue(text, P), array)

\* parse_array after next_token_if_current_is(LeftBracket)
ParseArrayOpened(text, open) ==
    IF ~open.ok THEN Returned(open.parser, NoValue)
    ELSE IF open.parser.current_token.type = "RightBracket"
    THEN Returned(ParserNextToken(text, open.parser), ArrayValue(<<>>))
    ELSE ParseArrayLoop(text, open.parser, <<>>)

\* Parser::parse_array
ParseArray(text, P) ==
    ParseArrayOpened(text, NextTokenIfCurrentIs(text, P, StructuralToken("LeftBracket")))

\* parse_value with the end of the input taken for a null
ParseValueNullAtEnd(text, P) ==
    IF P.current_token.type = "LeftBrace" THEN ParseObject(text, P)
    ELSE IF P.current_token.type = "LeftBracket" THEN ParseArray(text, P)
    ELSE IF P.current_token.type \in {"String", "Number", "True", "False", "Null"}
    THEN Returned(ParserNextToken(text, P), ScalarOf(P.current_token))
    ELSE IF P.current_token = NoToken /\ P.lexer.ch = EOF THEN Returned(P, NullValue)
    ELSE Returned(P, NoValue)

\* Parser::parse_value
ParseValue(text, P) ==
    IF P.current_token.type = "LeftBrace" THEN ParseObject(text, P)
    ELSE IF P.current_token.type = "LeftBracket" THEN ParseArray(text, P)
    ELSE IF P.current_token.type \in {"String", "Number", "True", "False", "Null"}
    THEN Returned(ParserNextToken(text, P), ScalarOf(P.current_token))
    ELSE Returned(P, NoValue)

\* Parser::parse
Parse(text, P) == ParseValue(text, P)

\* main: Lexer::new(&input), Parser::new(lexer), parser.parse()
ParseText(text) == Parse(text, ParserNew(text, LexerNew(text)))

---------------------------------------------------------------------------
(* Printer: src/src/json.rs *)

RECURSIVE NatDigits(_)
NatDigits(n) ==
    IF n < 10 THEN <<DigitChar(n)>> ELSE Append(NatDigits(n \div 10), DigitChar(n % 10))

RECURSIVE Zeros(_)
Zeros(n) == IF n = 0 THEN <<>> ELSE <<"0">> \o Zeros(n - 1)

\* a decimal with the digits d and k > 0 of them after the point
PointString(d, k) ==
    IF Len(d) > k
    THEN SubSeq(d, 1, Len(d) - k) \o <<".">> \o SubSeq(d, Len(d) - k + 1, Len(d))
    ELSE <<"0", ".">> \o Zeros(k - Len(d)) \o d

SignString(n) == IF n.neg THEN <<"-">> ELSE <<>>

\* to_string without the sign
F64ToStringUnsigned(n) ==
    IF n.kind = "inf" THEN <<"i", "n", "f">>
    ELSE IF n.exp >= 0 THEN NatDigits(n.mant) \o Zeros(n.exp)
    ELSE PointString(NatDigits(n.mant), 0 - n.exp)

\* f64::to_string: plain decimal notation, never an exponent
F64ToString(n) ==
    IF n.kind = "inf" THEN SignString(n) \o <<"i", "n", "f">>
    ELSE IF n.exp >= 0 THEN SignString(n) \o NatDigits(n.mant) \o Zeros(n.exp)
    ELSE SignString(n) \o PointString(NatDigits(n.mant), 0 - n.exp)

RECURSIVE PushIndent(_, _)
\* JsonValue::push_indent
PushIndent(formatted, n) ==
    IF n = 0 THEN formatted ELSE PushIndent(Append(formatted, Space), n - 1)

\* the step of the indentation of a nested value
IndentStep == 2

\* a comma after the last element too
SeparatorAlways(i, len) == <<",", LF>>

\* what follows the element of index i (0-based) of a container of len
\* elements.  len() - 1 is a subtraction of usize: on a length of 0 it
\* overflows (a panic where overflow is checked, usize::MAX where it is not),
\* and Panic in the text marks that it did
Separator(i, len) ==
    IF len = 0 THEN <<Panic>>
    ELSE IF i < len - 1 THEN <<",", LF>> ELSE <<LF>>

RECURSIVE FormatValue(_, _, _), FormatEntries(_, _, _, _), FormatItems(_, _, _, _)

\* the for loop of the Object arm of format_value, from index i (0-based)
FormatEntries(entries, i, ind, formatted) ==
    IF i >= Len(entries) THEN formatted
    ELSE FormatEntries(entries, i + 1, ind,
             FormatValue(entries[i + 1].value, ind + IndentStep,
                         PushIndent(formatted, ind + IndentStep)
                             \o <<Quote>> \o Encode(entries[i + 1].key) \o <<Quote>>
                             \o <<":", Space>>)
                 \o Separator(i, Len(entries)))

\* a loop of the Array arm that compares i with len() - 1 before it looks
\* for an element
FormatItemsCompareFirst(items, i, ind, formatted) ==
    IF Separator(i, Len(items)) = <<Panic>> THEN formatted \o <<Panic>>
    ELSE IF i >= Len(items) THEN formatted
    ELSE FormatItems(items, i + 1, ind,
             FormatValue(items[i + 1], ind + IndentStep,
                         PushIndent(formatted, ind + IndentStep))
                 \o Separator(i, Len(items)))

\* the for loop of the Array arm of format_value, from index i (0-based)
FormatItems(items, i, ind, formatted) ==
    IF i >= Len(items) THEN formatted
    ELSE FormatItems(items, i + 1, ind,
             FormatValue(items[i + 1], ind + IndentStep,
                         PushIndent(formatted, ind + IndentStep))
                 \o Separator(i, Len(items)))

\* JsonValue::format_value
FormatValue(v, ind, formatted) ==
    CASE v.type = "Object" ->
            PushIndent(FormatEntries(v.entries, 0, ind, formatted \o <<"{", LF>>), ind)
                \o <<"}">>
      [] v.type = "Array" ->
            PushIndent(FormatItems(v.items, 0, ind, formatted \o <<"[", LF>>), ind)
                \o <<"]">>
      [] v.type = "String" -> formatted \o <<Quote>> \o Encode(v.str) \o <<Quote>>
      [] v.type = "Number" -> formatted \o F64ToString(v.num)
      [] v.type = "True" -> formatted \o <<"t", "r", "u", "e">>
      [] v.type = "False" -> formatted \o <<"f", "a", "l", "s", "e">>
      [] v.type = "Null" -> formatted \o <<"n", "u", "l", "l">>

\* JsonValue::format
Format(v, ind) == FormatValue(v, ind, <<>>)

---------------------------------------------------------------------------
(* Input texts *)

\* the union of A and B, formed by enumerating both
Merge(A, B) == {x \in A : TRUE} \cup {x \in B : TRUE}

RECURSIVE SeqsUpTo(_, _)
\* the sequences over S of length at most n
SeqsUpTo(S, n) == IF n = 0 THEN {<<>>} ELSE [1..n -> S] \cup SeqsUpTo(S, n - 1)

RECURSIVE Concat(_)
\* the concatenation of a sequence of texts
Concat(pieces) ==
    IF pieces = <<>> THEN <<>> ELSE Head(pieces) \o Concat(Tail(pieces))

\* every character class the lexer distinguishes
FullAlphabet ==
    {"{", "}", "[", "]", ":", ",", Quote, Backslash, "1", "0", "-", "+", ".",
     "e", "n", "u", "a", "/", Space, LF, "#", EAcute, IdeoSpace, Euro}

\* the escapes of a string literal, one piece each
EscapePieces ==
    {<<Quote>>, <<"a">>, <<Backslash>>,
     <<Backslash, Quote>>, <<Backslash, Backslash>>, <<Backslash, "/">>,
     <<Backslash, "b">>, <<Backslash, "f">>, <<Backslash, "n">>,
     <<Backslash, "r">>, <<Backslash, "t">>, <<Backslash, "u">>,
     <<Backslash, "x">>}

\* the characters that steer read_string
StringAlphabet == {Quote, Backslash, "u"}

MaxFullLen == 2
MaxEscapePieces == 2
MaxStringLen == 8

\* the texts given to the lexer: up to full characters of the alphabet, a
\* quote and up to pieces escapes, up to len characters that steer read_string
LexInputs(full, pieces, len) ==
    Merge({Encode(cs) : cs \in SeqsUpTo(FullAlphabet, full)},
          Merge({<<Quote>> \o Concat(ps) : ps \in SeqsUpTo(EscapePieces, pieces)},
                SeqsUpTo(StringAlphabet, len)))

---------------------------------------------------------------------------
(* The lexer on its own: Lexer::new, then next_token calls *)

Lexer == [position |-> position, read_position |-> read_position, ch |-> ch]

\* the state after Lexer::new(&input), for an input among texts
InitLexOn(texts) ==
    /\ input \in texts
    /\ position = LexerNew(input).position
    /\ read_position = LexerNew(input).read_position
    /\ ch = LexerNew(input).ch
    /\ token = NoToken
    /\ prev = LexerFields
    /\ current_token = NoToken
    /\ value = NoToken
    /\ indent = 0
    /\ result = NoToken
    /\ output = <<>>
    /\ dropped = FALSE
    /\ stack = <<>>
    /\ consumed = <<>>
    /\ pc = "lexer"

InitLex == InitLexOn(LexInputs(MaxFullLen, MaxEscapePieces, MaxStringLen))

\* the lexer becomes L
SetLexer(L) ==
    /\ position' = L.position
    /\ read_position' = L.read_position
    /\ ch' = L.ch

\* the lexer and the token returned become those of r
SetLexed(r) == SetLexer(r.lexer) /\ token' = r.token

\* a call of Lexer::next_token
NextTokenCall ==
    /\ pc = "lexer"
    /\ SetLexed(NextToken(input, Lexer))
    /\ prev' = Lexer
    /\ UNCHANGED <<stack, consumed, input, current_token, value, indent, result, output, dropped, pc>>

\* one read_char step inside a call
ReadCharCall ==
    /\ pc = "lexer"
    /\ SetLexer(ReadChar(input, Lexer))
    /\ prev' = Lexer
    /\ UNCHANGED <<stack, consumed, input, token, current_token, value, indent, result, output, dropped, pc>>

NextLex == NextTokenCall

SpecLex == InitLex /\ [][NextLex]_vars

MaxFairLen == 2

\* the texts on which repeated calls are followed to the end
FairInputs(len) == {Encode(cs) : cs \in SeqsUpTo(FullAlphabet, len)}

InitLexFair == InitLexOn(FairInputs(MaxFairLen))

\* next_token is called again and again
SpecLexFair == InitLexFair /\ [][NextLex]_vars /\ WF_vars(NextTokenCall)

NextCursor == NextTokenCall \/ ReadCharCall

SpecCursor == InitLex /\ [][NextCursor]_vars

---------------------------------------------------------------------------
(* The parser on a text: main's Lexer::new, Parser::new and parse *)

\* one lexeme each, an unknown character, and an entry with its comma
ParsePieces ==
    {<<"[">>, <<"]">>, <<"{">>, <<"}">>, <<",">>, <<":">>, <<Quote, "a", Quote>>,
     <<"1">>, <<Space>>, <<"#">>, <<Quote, "b", Quote, ":", "1", ",">>}

WhitespaceAlphabet == {Space, LF, TAB, IdeoSpace}

MaxPieces == 4
MaxBlankLen == 3

\* the texts given to the parser: up to pieces lexemes, up to blanks
\* whitespace characters
ParseInputs(pieces, blanks) ==
    Merge({Concat(ps) : ps \in SeqsUpTo(ParsePieces, pieces)},
          {Encode(cs) : cs \in SeqsUpTo(WhitespaceAlphabet, blanks)})

\* main has read one of the texts from the standard input
InitOn(texts) ==
    /\ input \in texts
    /\ position = LexerFields.position
    /\ read_position = LexerFields.read_position
    /\ ch = LexerFields.ch
    /\ token = NoToken
    /\ prev = LexerFields
    /\ current_token = NoToken
    /\ value = NoValue
    /\ indent = 0
    /\ result = NoValue
    /\ output = <<>>
    /\ dropped = FALSE
    /\ stack = <<>>
    /\ consumed = <<>>
    /\ pc = "text"

Init == InitOn(ParseInputs(MaxPieces, MaxBlankLen))

\* the parser becomes P
SetParser(P) == SetLexer(P.lexer) /\ current_token' = P.current_token

\* the parser, the result and the report become those of r
SetParsed(r) == SetParser(r.parser) /\ result' = r.value /\ dropped' = r.dropped

\* main: Lexer::new(&input) and Parser::new(lexer)
ParserNewCall ==
    /\ pc = "text"
    /\ SetParser(ParserNew(input, LexerNew(input)))
    /\ pc' = "parser"
    /\ UNCHANGED <<stack, consumed, input, token, prev, value, indent, result, output, dropped>>

\* main: parser.parse()
ParseCall ==
    /\ pc = "parser"
    /\ SetParsed(Parse(input, ParserOf(Lexer, current_token)))
    /\ pc' = "done"
    /\ UNCHANGED <<stack, consumed, input, token, prev, value, indent, output>>

Next == ParserNewCall \/ ParseCall

Spec == Init /\ [][Next]_vars

\* a caller of Parser::next_token, as the tests of parser.rs call it; prev
\* keeps the lexer the call started from
ParserNextTokenCall ==
    /\ pc = "parser"
    /\ SetParser(ParserNextToken(input, ParserOf(Lexer, current_token)))
    /\ prev' = Lexer
    /\ UNCHANGED <<stack, consumed, input, token, value, indent, result, output, dropped, pc>>

NextLookahead == ParserNewCall \/ ParserNextTokenCall

\* the most pieces of a text of SpecLookahead
MaxLookaheadPieces == 3

InitLookahead == InitOn(ParseInputs(MaxLookaheadPieces, MaxBlankLen))

SpecLookahead == InitLookahead /\ [][NextLookahead]_vars

---------------------------------------------------------------------------
(* Parser::parse call by call: the parse_object and parse_array calls in   *)
(* progress are the frames of a stack, and a step runs the parser's code   *)
(* from one call or return of parse_value to the next.                     *)

\* the locals of a parse_object call: the map and the key of the entry
ObjectFrame(object, key) == [fn |-> "parse_object", object |-> object, key |-> key]

\* the local of a parse_array call
ArrayFrame(array) == [fn |-> "parse_array", array |-> array]

\* the parser with its calls in progress
Machine ==
    [parser |-> ParserOf(Lexer, current_token), stack |-> stack,
     consumed |-> consumed, result |-> result, pc |-> pc]

SetMachine(m) ==
    /\ SetParser(m.parser)
    /\ stack' = m.stack
    /\ consumed' = m.consumed
    /\ result' = m.result
    /\ pc' = m.pc

\* self.next_token(): the current token is passed over
Advance(text, m) ==
    [m EXCEPT !.parser = ParserNextToken(text, m.parser),
              !.consumed = Append(m.consumed, m.parser.current_token)]

\* self.next_token_if_current_is(expected), r being what it gives
AdvancedIf(m, r) ==
    [machine |-> [m EXCEPT !.parser = r.parser,
                           !.consumed = IF r.ok
                                        THEN Append(m.consumed, m.parser.current_token)
                                        ELSE m.consumed],
     ok |-> r.ok]

AdvanceIf(text, m, expected) ==
    AdvancedIf(m, NextTokenIfCurrentIs(text, m.parser, expected))

\* the call in progress returns v
Return(m, v) == [m EXCEPT !.result = v, !.pc = "returned"]

\* a parse_object or parse_array call runs on, at the place `at` of its loop
Continue(m, frame, at) == [m EXCEPT !.stack = Append(m.stack, frame), !.pc = at]

Top(m) == m.stack[Len(m.stack)]

\* the frame of the call that returns goes
Pop(m) == [m EXCEPT !.stack = SubSeq(m.stack, 1, Len(m.stack) - 1)]

\* parse_object after next_token_if_current_is(LeftBrace)
StepObjectOpened(text, open) ==
    IF ~open.ok THEN Return(open.machine, NoValue)
    ELSE IF open.machine.parser.current_token.type = "RightBrace"
    THEN Return(Advance(text, open.machine), ObjectValue(<<>>))
    ELSE Continue(open.machine, ObjectFrame(<<>>, <<>>), "key")

\* parse_object, up to the loop
StepParseObject(text, m) ==
    StepObjectOpened(text, AdvanceIf(text, m, StructuralToken("LeftBrace")))

\* parse_array after next_token_if_current_is(LeftBracket)
StepArrayOpened(text, open) ==
    IF ~open.ok THEN Return(open.machine, NoValue)
    ELSE IF open.machine.parser.current_token.type = "RightBracket"
    THEN Return(Advance(text, open.machine), ArrayValue(<<>>))
    ELSE Continue(open.machine, ArrayFrame(<<>>), "parse_value")

\* parse_array, up to the parse_value call of the loop
StepParseArray(text, m) ==
    StepArrayOpened(text, AdvanceIf(text, m, StructuralToken("LeftBracket")))

\* parse_value, up to its return or to the next parse_value call
StepParseValue(text, m) ==
    IF m.parser.current_token.type = "LeftBrace" THEN StepParseObject(text, m)
    ELSE IF m.parser.current_token.type = "LeftBracket" THEN StepParseArray(text, m)
    ELSE IF m.parser.current_token.type \in {"String", "Number", "True", "False", "Null"}
    THEN Return(Advance(text, m), ScalarOf(m.parser.current_token))
    ELSE Return(m, NoValue)

\* the loop of parse_object after the key: c is what
\* next_token_if_current_is(Colon) gave
StepColon(c, object, key) ==
    IF ~c.ok THEN Return(c.machine, NoValue)
    ELSE Continue(c.machine, ObjectFrame(object, key), "parse_value")

\* the loop of parse_object from its head to the parse_value call
StepKey(text, m, object) ==
    IF m.parser.current_token.type # "String" THEN Return(m, NoValue)
    ELSE StepColon(AdvanceIf(text, Advance(text, m), StructuralToken("Colon")),
                   object, m.parser.current_token.str)

\* an end of iteration that does not consume the comma
StepArrayNextKeepComma(text, m, array) ==
    IF m.parser.current_token.type = "Comma"
    THEN Continue(m, ArrayFrame(array), "parse_value")
    ELSE IF m.parser.current_token.type = "RightBracket"
    THEN Return(Advance(text, m), ArrayValue(array))
    ELSE Return(m, NoValue)

\* the end of an iteration of parse_array: `,` goes on, `]` ends the loop
StepArrayNext(text, m, array) ==
    IF m.parser.current_token.type = "Comma"
    THEN Continue(Advance(text, m), ArrayFrame(array), "parse_value")
    ELSE IF m.parser.current_token.type = "RightBracket"
    THEN Return(Advance(text, m), ArrayValue(array))
    ELSE Return(m, NoValue)

\* the end of an iteration of parse_object: `,` goes on, `}` ends the loop
StepObjectNext(text, m, object) ==
    IF m.parser.current_token.type = "Comma"
    THEN Continue(Advance(text, m), ObjectFrame(object, <<>>), "key")
    ELSE IF m.parser.current_token.type = "RightBrace"
    THEN Return(Advance(text, m), ObjectValue(object))
    ELSE Return(m, NoValue)

\* the call f goes on with the value v of the parse_value call it made
StepResume(text, m, f, v) ==
    IF f.fn = "parse_array"
    THEN StepArrayNext(text, m, IF v # NoValue THEN Append(f.array, v) ELSE f.array)
    ELSE StepObjectNext(text, m,
                        IF v # NoValue THEN MapInsert(f.object, f.key, v)
                        ELSE f.object)

\* a parse that fails when a token follows the value
StepReturnedAtEnd(text, m) ==
    IF m.stack = <<>>
    THEN [m EXCEPT !.pc = "done",
                   !.result = IF m.parser.current_token = NoToken THEN m.result
                              ELSE NoValue]
    ELSE StepResume(text, Pop(m), Top(m), m.result)

\* a parse_value call has returned: parse returns its value, a container
\* call goes on with it
StepReturned(text, m) ==
    IF m.stack = <<>> THEN [m EXCEPT !.pc = "done"]
    ELSE StepResume(text, Pop(m), Top(m), m.result)

\* Parser::parse calls parse_value
ParseBegin ==
    /\ pc = "parser"
    /\ pc' = "parse_value"
    /\ UNCHANGED <<input, position, read_position, ch, token, prev, current_token,
                   value, indent, result, output, dropped, stack, consumed>>

\* a parse_value call, up to its return or the next parse_value call
ParseValueStep ==
    /\ pc = "parse_value"
    /\ SetMachine(StepParseValue(input, Machine))
    /\ UNCHANGED <<input, token, prev, value, indent, output, dropped>>

\* the head of the loop of parse_object
KeyStep ==
    /\ pc = "key"
    /\ SetMachine(StepKey(input, Pop(Machine), Top(Machine).object))
    /\ UNCHANGED <<input, token, prev, value, indent, output, dropped>>

\* the return of a parse_value call
ReturnStep ==
    /\ pc = "returned"
    /\ SetMachine(StepReturned(input, Machine))
    /\ UNCHANGED <<input, token, prev, value, indent, output, dropped>>

ParseStep == ParseValueStep \/ KeyStep \/ ReturnStep

NextSteps == ParserNewCall \/ ParseBegin \/ ParseStep

SpecSteps == Init /\ [][NextSteps]_vars

---------------------------------------------------------------------------
(* The printer on a value, and the parser on the printed text *)

Keys == {<<"a">>, <<"b">>}

Scalars ==
    {NullValue, TrueValue, FalseValue,
     NumberValue(Finite(FALSE, 1, 0)), NumberValue(Finite(TRUE, 25, -1)),
     NumberValue(Infinity(FALSE)),
     StringValue(<<"a">>), StringValue(<<"a", Quote>>), StringValue(<<Backslash>>)}

MaxNodes == 4
MaxIndent == 1

\* the sequences of n distinct keys
KeySeqs(n) == {ks \in [1..n -> Keys] : \A i, j \in 1..n : ks[i] = ks[j] => i = j}

\* the object with the keys ks and the values f, in that order
ObjectOf(ks, f) == ObjectValue([i \in 1..Len(f) |-> [key |-> ks[i], value |-> f[i]]])

RECURSIVE ObjectsOf(_, _)
\* the objects of at most k entries whose values are a sequence of fs
ObjectsOf(fs, k) ==
    IF k = 0 THEN {}
    ELSE Merge({ObjectOf(ks, f) : ks \in KeySeqs(k), f \in {g \in fs : Len(g) = k}},
               ObjectsOf(fs, k - 1))

RECURSIVE ValuesOfSize(_), Forests(_), ForestsFrom(_, _)

\* the sequences of values with n nodes in all whose first value has at
\* least k nodes
ForestsFrom(n, k) ==
    IF k > n THEN {}
    ELSE Merge({<<v>> \o f : v \in ValuesOfSize(k), f \in Forests(n - k)},
               ForestsFrom(n, k + 1))

\* the sequences of values with n nodes in all
Forests(n) == IF n = 0 THEN {<<>>} ELSE ForestsFrom(n, 1)

\* the values with n nodes (a scalar or a container is one node)
ValuesOfSize(n) ==
    IF n = 1 THEN Scalars \cup {ArrayValue(<<>>), ObjectValue(<<>>)}
    ELSE Merge({ArrayValue(f) : f \in Forests(n - 1)},
               ObjectsOf(Forests(n - 1), Cardinality(Keys)))

RECURSIVE Values(_)
\* the values with at most n nodes
Values(n) == IF n = 0 THEN {} ELSE Merge(ValuesOfSize(n), Values(n - 1))

InitFmt ==
    /\ value \in Values(MaxNodes)
    /\ input = <<>>
    /\ position = LexerFields.position
    /\ read_position = LexerFields.read_position
    /\ ch = LexerFields.ch
    /\ token = NoToken
    /\ prev = LexerFields
    /\ current_token = NoToken
    /\ indent = 0
    /\ result = NoValue
    /\ output = <<>>
    /\ dropped = FALSE
    /\ stack = <<>>
    /\ consumed = <<>>
    /\ pc = "value"

\* value.format(n)
FormatCall(n) ==
    /\ pc = "value"
    /\ output' = Format(value, n)
    /\ indent' = n
    /\ pc' = "formatted"
    /\ UNCHANGED <<stack, consumed, input, position, read_position, ch, token, prev, current_token,
                   value, result, dropped>>

\* Parser::new(Lexer::new(&output)).parse(): the printed text is parsed
ReparseCall ==
    /\ pc = "formatted"
    /\ input' = output
    /\ SetParsed(ParseText(output))
    /\ pc' = "done"
    /\ UNCHANGED <<stack, consumed, token, prev, value, indent, output>>

NextFmt == (\E n \in {0, MaxIndent} : FormatCall(n)) \/ ReparseCall

SpecFmt == InitFmt /\ [][NextFmt]_vars

---------------------------------------------------------------------------
(* Claims about the parser on a text (Spec) *)

IsScalarToken(t) == t.type \in {"String", "Number", "True", "False", "Null"}

RECURSIVE TokenStream(_, _)

\* the token of the call r and those of the calls after it
TokenStreamAfter(text, r) == <<r.token>> \o TokenStream(text, r.lexer)

\* what next_token returns, call after call, until the lexer is at the end
TokenStream(text, L) ==
    IF L.ch = EOF THEN <<>> ELSE TokenStreamAfter(text, NextToken(text, L))

Tokens(text) == TokenStream(text, LexerNew(text))

\* `[` scalar (`,` scalar)* `,` `]`
TrailingCommaArray(ts) ==
    /\ Len(ts) >= 4
    /\ Len(ts) % 2 = 0
    /\ ts[1].type = "LeftBracket"
    /\ ts[Len(ts)].type = "RightBracket"
    /\ \A i \in 2..(Len(ts) - 1) :
          IF i % 2 = 0 THEN IsScalarToken(ts[i]) ELSE ts[i].type = "Comma"

\* `{` (string `:` scalar `,`)+ `}`
TrailingCommaObject(ts) ==
    /\ Len(ts) >= 6
    /\ Len(ts) % 4 = 2
    /\ ts[1].type = "LeftBrace"
    /\ ts[Len(ts)].type = "RightBrace"
    /\ \A i \in 2..(Len(ts) - 1) :
          CASE i % 4 = 2 -> ts[i].type = "String"
            [] i % 4 = 3 -> ts[i].type = "Colon"
            [] i % 4 = 0 -> IsScalarToken(ts[i])
            [] i % 4 = 1 -> ts[i].type = "Comma"

\* C1: an array or an object whose last element or entry is followed by a
\* comma directly before the closing bracket parses to the absent value.
C1_TrailingCommaIsAbsent ==
    (pc = "done" /\ (TrailingCommaArray(Tokens(input)) \/ TrailingCommaObject(Tokens(input))))
        => result = NoValue

\* C2: whenever the parse_value call made for an array element or an entry
\* value returns the absent value, the enclosing parse_array / parse_object
\* call returns the absent value too: parse never returns a container from
\* which the failed element or entry is missing.
C2_AbsentElementFailsContainer == pc = "done" => ~dropped

RemoveAt(text, i) == SubSeq(text, 1, i - 1) \o SubSeq(text, i + 1, Len(text))

RECURSIVE TokenEnds(_, _)
\* the lexers right after each of the leading tokens of the text
TokenEnds(text, L) ==
    IF NextToken(text, L).token = NoToken THEN {}
    ELSE {NextToken(text, L).lexer} \cup TokenEnds(text, NextToken(text, L).lexer)

\* byte offset b of the text lies between two tokens: a token ends there and
\* a token starts there
BetweenTokens(text, b) ==
    \E L \in TokenEnds(text, LexerNew(text)) :
        L.position = b /\ L.ch # EOF /\ ~IsWhitespace(L.ch)
            /\ NextToken(text, L).token # NoToken

\* C3: an unknown character between two tokens does not change what parse
\* returns: the text parses as it does without the character.
C3_UnknownCharacterSkipped ==
    pc = "done" =>
        \A i \in 1..Len(input) :
            (input[i] = "#" /\ BetweenTokens(RemoveAt(input, i), i - 1))
                => result = ParseText(RemoveAt(input, i)).value

\* the text has no character other than whitespace
OnlyWhitespace(text) == \A i \in 1..Len(text) : text[i] = Cont \/ IsWhitespace(text[i])

\* C7: a text with no character other than whitespace (the empty text too)
\* parses to the absent value.
C7_BlankIsAbsent == (pc = "done" /\ OnlyWhitespace(input)) => result = NoValue

C7_Witness ==
    /\ pc = "done"
    /\ OnlyWhitespace(input)
    /\ Len(Chars(input)) >= 2
    /\ \E i \in 1..Len(input) : input[i] = IdeoSpace
    /\ result = NoValue

---------------------------------------------------------------------------
(* Claims about the printer and the round trip (SpecFmt) *)

RECURSIVE Printable(_)
\* the numbers of v are finite and its strings and keys have neither a
\* quote nor a backslash
Printable(v) ==
    CASE v.type = "String" ->
            \A i \in 1..Len(v.str) : v.str[i] \notin {Quote, Backslash}
      [] v.type = "Number" -> v.num.kind = "finite"
      [] v.type = "Array" -> \A i \in 1..Len(v.items) : Printable(v.items[i])
      [] v.type = "Object" ->
            \A i \in 1..Len(v.entries) :
                /\ Printable(v.entries[i].value)
                /\ \A j \in 1..Len(v.entries[i].key) :
                      v.entries[i].key[j] \notin {Quote, Backslash}
                /\ \A k \in 1..Len(v.entries) :
                      v.entries[k].key = v.entries[i].key => k = i
      [] OTHER -> TRUE

\* C4 as stated: parsing the text of V.format(0) returns V, for every value
\* V built from Null, True, False, numbers, strings, arrays and objects
\* without duplicate keys.
C4_RoundTripAnyValue == (pc = "done" /\ indent = 0) => result = value

\* C4: parsing the text of V.format(0) returns V, for every value V built
\* from Null, True, False, finite numbers, strings and keys that have
\* neither a quote nor a backslash, arrays and objects without duplicate
\* keys (the empty ones too).
C4_RoundTrip == (pc = "done" /\ indent = 0 /\ Printable(value)) => result = value

C4_Witness ==
    /\ pc = "done"
    /\ indent = 0
    /\ Printable(value)
    /\ value.type = "Object"
    /\ Len(value.entries) = 2
    /\ \E i \in 1..2 :
          /\ value.entries[i].value.type = "Array"
          /\ value.entries[i].value.items # <<>>
    /\ result = value

Spaces(n) == [i \in 1..n |-> Space]

\* after every element but the last a comma and a newline, after the last
\* a newline
AfterElement(i, len) == IF i < len THEN <<",", LF>> ELSE <<LF>>

RECURSIVE ItemLines(_, _, _)
\* the lines of the elements of an array from the i-th on, in a container
\* written with indentation n
ItemLines(items, i, n) ==
    IF i > Len(items) THEN <<>>
    ELSE Spaces(n + 2) \o Format(items[i], n + 2) \o AfterElement(i, Len(items))
             \o ItemLines(items, i + 1, n)

RECURSIVE EntryLines(_, _, _)
\* the lines of the entries of an object from the i-th on
EntryLines(entries, i, n) ==
    IF i > Len(entries) THEN <<>>
    ELSE Spaces(n + 2) \o <<Quote>> \o Encode(entries[i].key) \o <<Quote, ":", Space>>
             \o Format(entries[i].value, n + 2) \o AfterElement(i, Len(entries))
             \o EntryLines(entries, i + 1, n)

\* the text of a non-empty container written with indentation n
Layout(v, n) ==
    IF v.type = "Array"
    THEN <<"[", LF>> \o ItemLines(v.items, 1, n) \o Spaces(n) \o <<"]">>
    ELSE <<"{", LF>> \o EntryLines(v.entries, 1, n) \o Spaces(n) \o <<"}">>

NonEmptyContainer(v) ==
    \/ v.type = "Array" /\ v.items # <<>>
    \/ v.type = "Object" /\ v.entries # <<>>

RECURSIVE NextLF(_, _)
\* the index of the first newline of the text from index i on, or one past
\* its end
NextLF(text, i) == IF i > Len(text) \/ text[i] = LF THEN i ELSE NextLF(text, i + 1)

RECURSIVE SplitFrom(_, _)

\* the line that starts at index i and ends before index k, and the lines
\* after it
SplitAt(text, i, k) ==
    IF k > Len(text) THEN <<SubSeq(text, i, Len(text))>>
    ELSE <<SubSeq(text, i, k - 1)>> \o SplitFrom(text, k + 1)

SplitFrom(text, i) == SplitAt(text, i, NextLF(text, i))

\* the lines of a text
SplitLines(text) == SplitFrom(text, 1)

RECURSIVE SpacesFrom(_, _)
\* the number of spaces of the line from index i on, before anything else
SpacesFrom(line, i) ==
    IF i > Len(line) \/ line[i] # Space THEN 0 ELSE 1 + SpacesFrom(line, i + 1)

LeadingSpaces(line) == SpacesFrom(line, 1)

\* the line starts, after its n spaces, with a closer
ClosesAfter(line, n) == n < Len(line) /\ line[n + 1] \in {"]", "}"}

Closes(line) == ClosesAfter(line, LeadingSpaces(line))

Opens(line) == line # <<>> /\ line[Len(line)] \in {"[", "{"}

EndsWithComma(line) == line # <<>> /\ line[Len(line)] = ","

RECURSIVE LaidOut(_, _, _)

\* the i-th line, which is at nesting depth d, and the lines after it
LaidOutAt(lines, i, d) ==
    /\ d >= 0
    /\ LeadingSpaces(lines[i]) = 2 * d
    /\ i > 1 => (IF Closes(lines[i]) THEN ~EndsWithComma(lines[i - 1])
                 ELSE EndsWithComma(lines[i - 1]) \/ Opens(lines[i - 1]))
    /\ LaidOut(lines, i + 1, d + (IF Opens(lines[i]) THEN 1 ELSE 0))

\* from the i-th line on, entered at nesting depth d: a closer leaves its
\* depth first; every line starts after twice its depth in spaces; no comma
\* precedes a closer and one precedes every other line that does not
\* follow an opener
LaidOut(lines, i, d) ==
    IF i > Len(lines) THEN d = 0
    ELSE LaidOutAt(lines, i, d - (IF Closes(lines[i]) THEN 1 ELSE 0))

RECURSIVE Flatten(_), FlattenItems(_, _), FlattenEntries(_, _)
\* the keys and the scalars of a value as tokens, in the order of the value
Flatten(v) ==
    CASE v.type = "String" -> <<StringToken(v.str)>>
      [] v.type = "Number" -> <<NumberToken(v.num)>>
      [] v.type = "Array" -> FlattenItems(v.items, 1)
      [] v.type = "Object" -> FlattenEntries(v.entries, 1)
      [] OTHER -> <<StructuralToken(v.type)>>

FlattenItems(items, i) ==
    IF i > Len(items) THEN <<>> ELSE Flatten(items[i]) \o FlattenItems(items, i + 1)

FlattenEntries(entries, i) ==
    IF i > Len(entries) THEN <<>>
    ELSE <<StringToken(entries[i].key)>> \o Flatten(entries[i].value)
             \o FlattenEntries(entries, i + 1)

ScalarTokens(ts) == SelectSeq(ts, IsScalarToken)

IsPrefix(a, b) == Len(a) <= Len(b) /\ SubSeq(b, 1, Len(a)) = a

---------------------------------------------------------------------------
(* Claims about the lexer (SpecLex, SpecLexFair, SpecCursor) *)

\* the characters of the text from byte offset b on
CharsFrom(text, b) == Chars(SubSeq(text, b + 1, Len(text)))

\* the two-character escapes and the character each stands for
TwoCharacterEscapes ==
    [c \in {Quote, Backslash, "/", "b", "f", "n", "r", "t"} |->
        CASE c = "b" -> BS [] c = "f" -> FF [] c = "n" -> LF
          [] c = "r" -> CR [] c = "t" -> TAB [] OTHER -> c]

\* the number of characters of the unit that starts at cs[i]: `\u` and
\* four characters, a backslash pair, or one character
UnitLen(cs, i) ==
    IF cs[i] # Backslash THEN 1
    ELSE IF i < Len(cs) /\ cs[i + 1] = "u" THEN 6
    ELSE 2

RECURSIVE Decoded(_, _)
\* the string that the characters cs, which follow an opening quote,
\* denote from cs[i] on
Decoded(cs, i) ==
    IF i > Len(cs) \/ cs[i] = Quote THEN <<>>
    ELSE IF cs[i] # Backslash THEN <<cs[i]>> \o Decoded(cs, i + 1)
    ELSE IF i < Len(cs) /\ cs[i + 1] \in DOMAIN TwoCharacterEscapes
    THEN <<TwoCharacterEscapes[cs[i + 1]]>> \o Decoded(cs, i + 2)
    ELSE Decoded(cs, i + UnitLen(cs, i))

RECURSIVE Closing(_, _)
\* the index of the first unescaped quote from cs[i] on, or Len(cs) when
\* there is none
Closing(cs, i) ==
    IF i > Len(cs) THEN Len(cs)
    ELSE IF cs[i] = Quote THEN i
    ELSE Closing(cs, i + UnitLen(cs, i))

\* read_string called with the lexer s on an opening quote has returned the
\* decoded characters and stands after the closing quote
StringRead(s, cs) ==
    /\ token = StringToken(Decoded(cs, 1))
    /\ position = s.read_position + Len(Encode(SubSeq(cs, 1, Closing(cs, 1))))

\* C8: from an opening quote read_string returns the characters up to the
\* first unescaped quote, which it consumes: a two-character escape gives
\* its one decoded character, `\u` and the four characters after it give
\* nothing, another backslash pair gives nothing, every other character is
\* copied; an escaped quote does not end the string.
C8_StringDecoding ==
    (pc = "lexer" /\ SkipWhitespace(input, prev).ch = Quote) =>
        StringRead(SkipWhitespace(input, prev),
                   CharsFrom(input, SkipWhitespace(input, prev).read_position))

C8_Witness ==
    /\ pc = "lexer"
    /\ prev.ch = Quote
    /\ Len(CharsFrom(input, prev.read_position)) >= 7
    /\ CharsFrom(input, prev.read_position)[1] = Backslash
    /\ CharsFrom(input, prev.read_position)[2] = "u"
    /\ Quote \in {CharsFrom(input, prev.read_position)[i] : i \in 3..6}
    /\ token.type = "String"
    /\ token.str # <<>>

\* C9 as stated: every call of next_token made before the end of the input
\* is reached strictly increases read_position.
C9_ReadPositionIncreases ==
    (pc = "lexer" /\ prev.ch # EOF) => read_position > prev.read_position

\* a call made before the end of the input has consumed a character
Consumed ==
    (pc = "lexer" /\ prev.ch # EOF) =>
        position > prev.position /\ read_position >= prev.read_position

\* the end of the input, where next_token returns the end marker and
\* leaves the lexer as it is
AtEnd ==
    /\ ch = EOF
    /\ position = ByteLen(input)
    /\ read_position = ByteLen(input)
    /\ NextToken(input, Lexer) = Lexed(Lexer, NoToken)

\* C9: calling next_token again and again reaches, after finitely many
\* calls, the end of the input (ch absent, read_position = len(input)),
\* where next_token returns the end marker; every call made before that
\* consumes at least one character: it strictly increases position and
\* does not decrease read_position.
C9_LexerTerminates == []Consumed /\ <>[]AtEnd

C9_Witness ==
    /\ pc = "lexer"
    /\ prev.ch # EOF
    /\ token # NoToken
    /\ position > prev.position
    /\ read_position = prev.read_position
    /\ AtEnd

\* C10: position <= read_position <= len(input), and read_position -
\* position is the UTF-8 length of ch, or zero when ch is absent; right
\* after construction on a non-empty input position = 0 and ch is the
\* first character.
C10_CursorInvariant ==
    /\ position <= read_position
    /\ read_position <= ByteLen(input)
    /\ read_position - position = (IF ch = EOF THEN 0 ELSE Utf8Len(ch))
    /\ (input # <<>> /\ prev = LexerFields) => (position = 0 /\ ch = input[1])

C10_Witness ==
    /\ pc = "lexer"
    /\ prev # LexerFields
    /\ position > 0
    /\ ch \in {EAcute, IdeoSpace, Euro}
    /\ read_position - position > 1
    /\ input[1] \in {EAcute, IdeoSpace, Euro}

(***************************************************************************)
(* C11: the parser's one-token lookahead.                                  *)
(***************************************************************************)

RECURSIVE LexerRuns(_, _)

\* the call r and the calls after it
LexerRunsAfter(text, r) == <<r>> \o LexerRuns(text, r.lexer)

\* the lexer's next_token calls, each with the lexer it leaves, until the
\* lexer is at the end
LexerRuns(text, L) ==
    IF L.ch = EOF THEN <<>> ELSE LexerRunsAfter(text, NextToken(text, L))

\* the k-th token of the lexer's stream; absent after the last one
TokenAt(runs, k) == IF k <= Len(runs) THEN runs[k].token ELSE NoToken

\* the lexer the k-th call of the lexer's next_token starts from
LexerBefore(text, runs, k) ==
    IF k = 1 THEN LexerNew(text) ELSE runs[k - 1].lexer

\* the lexer the parser's latest next_token started from: Parser::new starts
\* from the new lexer
CalledFrom == IF prev = LexerFields THEN LexerNew(input) ELSE prev

\* the parser holds the k-th token of the stream, having asked for it where
\* the (k-1)-th ended
Holds(text, runs, k) ==
    /\ CalledFrom = LexerBefore(text, runs, k)
    /\ current_token = TokenAt(runs, k)
    /\ k <= Len(runs) => Lexer = runs[k].lexer

Lookahead(text, runs) ==
    /\ prev = LexerFields => current_token = TokenAt(runs, 1)
    /\ \E k \in 1..(Len(runs) + 1) : Holds(text, runs, k)
    /\ CalledFrom.ch = EOF => current_token = NoToken

\* C11: after Parser::new, current_token is the first token the lexer
\* produces for the input; every call of the parser's next_token starts where
\* the previous token ended and leaves in current_token the next token of
\* the lexer's stream, so that none is skipped or delivered twice; after the
\* last token current_token is absent.
C11_OneTokenLookahead ==
    pc = "parser" =>
        Lookahead(input, LexerRuns(input, LexerNew(input)))

\* every token of `{"b":1,}` and the like has been delivered, and the call
\* after the last one left current_token absent
C11_Witness ==
    /\ pc = "parser"
    /\ prev # LexerFields
    /\ prev.ch = EOF
    /\ current_token = NoToken
    /\ Len(Tokens(input)) >= 6
    /\ \A i \in 1..Len(Tokens(input)) : Tokens(input)[i] # NoToken

(***************************************************************************)
(* C12: empty containers.                                                  *)
(***************************************************************************)

\* the subtraction len() - 1 overflowed while the text was written
Overflowed(text) == \E i \in 1..Len(text) : text[i] = Panic

\* C12: format with indentation n on an empty Array returns `[`, a newline,
\* n spaces and `]`, and on an empty Object `{`, a newline, n spaces and `}`;
\* the comparison i < len() - 1 is evaluated on no container of length 0,
\* at any depth of the value, so that the subtraction never overflows.
C12_EmptyContainers ==
    pc = "formatted" =>
        /\ value = ArrayValue(<<>>) =>
               output = <<"[", LF>> \o Spaces(indent) \o <<"]">>
        /\ value = ObjectValue(<<>>) =>
               output = <<"{", LF>> \o Spaces(indent) \o <<"}">>
        /\ ~Overflowed(output)

\* the empty array written with a positive indentation
C12_Witness ==
    /\ pc = "formatted"
    /\ value = ArrayValue(<<>>)
    /\ indent > 0
    /\ Len(output) = indent + 3
    /\ output[Len(output)] = "]"

(***************************************************************************)
(* C13: termination of the parser.                                         *)
(***************************************************************************)

IsOpener(t) == t.type \in {"LeftBrace", "LeftBracket"}

RECURSIVE OpenersFrom(_, _)
OpenersFrom(ts, i) ==
    IF i > Len(ts) THEN 0
    ELSE (IF IsOpener(ts[i]) THEN 1 ELSE 0) + OpenersFrom(ts, i + 1)

\* the number of `{` and `[` among the tokens ts
Openers(ts) == OpenersFrom(ts, 1)

\* the recursion is no deeper than the opening tokens consumed are many
DepthBound == Len(stack) <= Openers(consumed)

\* what is left of the token stream: the bytes from Lexer.ch on, and the
\* current token
Remaining ==
    (Len(input) - position) + (IF current_token = NoToken THEN 0 ELSE 1)

\* a call is about to be made (2), has returned (1), or parse is over (0)
Rank == IF pc \in {"parse_value", "key"} THEN 2 ELSE IF pc = "returned" THEN 1 ELSE 0

\* the step consumes a token, or else returns from a container call, or
\* else goes from a call to its return
Decreases ==
    /\ Remaining >= 0
    /\ Remaining' <= Remaining
    /\ Remaining' = Remaining => Len(stack') <= Len(stack)
    /\ (Remaining' = Remaining /\ Len(stack') = Len(stack)) => Rank' < Rank

\* one more token has been passed over
ConsumesOne == Len(consumed') = Len(consumed) + 1 /\ Remaining' < Remaining

\* the container call in progress returns the absent value
ReturnsAbsent ==
    Len(stack') = Len(stack) - 1 /\ pc' = "returned" /\ result' = NoValue

\* an iteration of a loop ends: the loop goes on only past a token
IterationConsumes ==
    (stack # <<>> /\ pc = "returned" /\ pc' # "returned") =>
        /\ ConsumesOne
        /\ consumed'[Len(consumed')].type = "Comma"

\* an iteration of the loop of parse_object begins: it returns or passes the
\* key
KeyConsumes == pc = "key" => ReturnsAbsent \/ Len(consumed') > Len(consumed)

\* a parse_value call of a loop returned the absent value: a comma or a
\* closer is consumed, or the container call returns
AbsentFollowed ==
    (stack # <<>> /\ pc = "returned" /\ result = NoValue) =>
        \/ ConsumesOne /\ consumed'[Len(consumed')].type
                              \in {"Comma", "RightBracket", "RightBrace"}
        \/ ReturnsAbsent /\ consumed' = consumed

\* C13: Parser::parse terminates on every text: every step of it consumes a
\* token, returns from a call or goes from a call to its return, so that a
\* measure bounded below decreases; an iteration of the loop of parse_object
\* or parse_array goes on only past a consumed token, an absent value of a
\* recursive parse_value is followed by a consumed comma, a consumed closer
\* or a return, and the parse_object and parse_array calls in progress are
\* never more than the opening tokens consumed.
C13_ParserTerminates ==
    [][ParseStep =>
          /\ Decreases
          /\ IterationConsumes
          /\ KeyConsumes
          /\ AbsentFollowed
          /\ DepthBound'
          /\ pc' = "done" => stack' = <<>>]_vars

\* two container calls are in progress and the inner parse_value call
\* returned the absent value without consuming: a comma follows
C13_Witness ==
    /\ pc = "returned"
    /\ result = NoValue
    /\ Len(stack) = 2
    /\ Openers(consumed) = 2
    /\ consumed[Len(consumed)].type = "Comma"
    /\ current_token.type = "Comma"

(***************************************************************************)
(* C14: tokens after the first complete value.                             *)
(***************************************************************************)

\* the first n bytes of the text
Prefix(text, n) == SubSeq(text, 1, n)

\* when parsing the text S returns a value V (r is what it returns) and the
\* token stream ts is the stream of S followed by further tokens, V is v
SameAsPrefix(S, r, ts, v) ==
    (r.value # NoValue /\ IsPrefix(Tokens(S), ts)) => r.value = v

\* every text S that the input goes on from parses, if to a value, to v
SameAsPrefixes(text, ts, v) ==
    \A n \in 0..Len(text) :
        SameAsPrefix(Prefix(text, n), ParseText(Prefix(text, n)), ts, v)

\* parse, having passed over the tokens cs, has asked the lexer for one
\* token more and for none after it
OneTokenAhead(runs, cs) ==
    /\ Len(cs) <= Len(runs)
    /\ \A i \in 1..Len(cs) : cs[i] = runs[i].token
    /\ current_token = TokenAt(runs, Len(cs) + 1)
    /\ IF Len(cs) < Len(runs) THEN Lexer = runs[Len(cs) + 1].lexer ELSE ch = EOF

\* the text of the tokens cs, the first of the stream
TextOf(text, runs, cs) == Prefix(text, runs[Len(cs)].lexer.position)

\* the value v returned comes of the tokens cs passed over, whatever follows
ValueOfConsumed(text, runs, cs, v) ==
    v # NoValue =>
        /\ cs # <<>>
        /\ Tokens(TextOf(text, runs, cs)) = cs
        /\ ParseText(TextOf(text, runs, cs)).value = v

\* C14: Parser::parse does not require the input to end after the value:
\* when a token stream S parses to a value, S followed by further tokens
\* parses to the same value.  parse returns when the first complete value
\* is recognised: the value is that of the tokens passed over alone, and
\* of what follows only the next token has been asked of the lexer, which
\* parse leaves in current_token without looking at it.
C14_TrailingTokensIgnored ==
    pc = "done" =>
        /\ SameAsPrefixes(input, Tokens(input), result)
        /\ OneTokenAhead(LexerRuns(input, LexerNew(input)), consumed)
        /\ ValueOfConsumed(input, LexerRuns(input, LexerNew(input)), consumed, result)

\* `[1]` followed by a token that no JSON text has there
C14_Witness ==
    /\ pc = "done"
    /\ result = ArrayValue(<<NumberValue(Finite(FALSE, 1, 0))>>)
    /\ Len(consumed) = 3
    /\ Len(Tokens(input)) > 3
    /\ current_token.type \in {"RightBracket", "Comma", "Colon"}
    /\ ParseText(Prefix(input, 3)).value = result

===========================================================================
